---- MODULE Spec2Model ----
(***************************************************************************)
(* PROTATICA - services/geminiService.ts                                   *)
(*                                                                         *)
(* A model of the two request paths of analyzeFootballMatch: the link path *)
(* (getAnalysisFromWeb, the identity guards) and the file path             *)
(* (extractFramesFromVideo, getAnalysisFromFile).                          *)
(*                                                                         *)
(* Strings are sequences of fragments: a title is a sequence of            *)
(* characters, a URL a sequence of lexical pieces ("https://", "/", "?",   *)
(* "=", a name).  Two strings are equal when their sequences are.          *)
(***************************************************************************)
EXTENDS Integers, Sequences, FiniteSets, TLC

(***************************************************************************)
(* JavaScript values that reach a guard: a tagged string of fragments.     *)
(***************************************************************************)
Str(s) == [t |-> "str", v |-> s]

Num(s) == [t |-> "num", v |-> s]

Null == [t |-> "null", v |-> <<>>]

Undefined == [t |-> "undef", v |-> <<>>]

\* ToBoolean: undefined, null, "" and 0 are falsy.
Truthy(x) ==
    \/ x.t = "str" /\ x.v # <<>>
    \/ x.t = "num" /\ x.v # <<"0">>

\* a || b
OrElse(a, b) == IF Truthy(a) THEN a ELSE b

(***************************************************************************)
(* String primitives (0-based indices, -1 for "not found", as in JS).      *)
(***************************************************************************)
indexOf(s, x) ==
    IF \E i \in 1..Len(s) : s[i] = x
    THEN (CHOOSE i \in 1..Len(s) : s[i] = x /\ \A j \in 1..(i - 1) : s[j] # x) - 1
    ELSE -1

lastIndexOf(s, x) ==
    IF \E i \in 1..Len(s) : s[i] = x
    THEN (CHOOSE i \in 1..Len(s) : s[i] = x /\ \A j \in (i + 1)..Len(s) : s[j] # x) - 1
    ELSE -1

Clamp(n, lo, hi) == IF n < lo THEN lo ELSE IF n > hi THEN hi ELSE n

\* String.prototype.substring(a, b): clamps both indices and swaps them when a > b.
substring(s, a, b) ==
    LET ca == Clamp(a, 0, Len(s))
        cb == Clamp(b, 0, Len(s))
        from == IF ca < cb THEN ca ELSE cb
        to == IF ca < cb THEN cb ELSE ca
    IN  SubSeq(s, from + 1, to)

\* String.prototype.slice(a) for a >= 0
sliceFrom(s, a) == SubSeq(s, a + 1, Len(s))

\* s.includes(t)
includes(s, t) ==
    \E i \in 0..(Len(s) - Len(t)) : SubSeq(s, i + 1, i + Len(t)) = t

\* s.endsWith(t)
endsWith(s, t) ==
    /\ Len(t) <= Len(s)
    /\ SubSeq(s, Len(s) - Len(t) + 1, Len(s)) = t

\* s.split(sep): the pieces between the occurrences of the fragment sep.
RECURSIVE split(_, _)
split(s, sep) ==
    LET i == indexOf(s, sep)
    IN  IF i = -1
        THEN <<s>>
        ELSE <<SubSeq(s, 1, i)>> \o split(sliceFrom(s, i + 1), sep)

\* arr.filter(Boolean) on an array of strings: drops the empty ones.
RECURSIVE filterBoolean(_)
filterBoolean(arr) ==
    IF arr = <<>>
    THEN <<>>
    ELSE (IF Head(arr) # <<>> THEN <<Head(arr)>> ELSE <<>>) \o filterBoolean(Tail(arr))

(***************************************************************************)
(* new URL(url): scheme, host, path and query of an absolute URL; a string *)
(* without a scheme does not parse (the constructor throws).               *)
(***************************************************************************)
Schemes == {"https://", "http://"}

\* index of the first fragment of s that is in the set stops, Len(s) if none
FirstOf(s, stops) ==
    IF \E i \in 1..Len(s) : s[i] \in stops
    THEN (CHOOSE i \in 1..Len(s) : s[i] \in stops /\ \A j \in 1..(i - 1) : s[j] \notin stops) - 1
    ELSE Len(s)

ParseURL(url) ==
    IF url = <<>> \/ Head(url) \notin Schemes \/ Len(url) < 2 \/ url[2] \in {"/", "?"}
    THEN [ok |-> FALSE, hostname |-> <<>>, pathname |-> <<>>, search |-> <<>>]
    ELSE LET rest == Tail(url)
             h == FirstOf(rest, {"/", "?"})
             afterHost == sliceFrom(rest, h)
             q == indexOf(afterHost, "?")
             path == IF q = -1 THEN afterHost ELSE SubSeq(afterHost, 1, q)
         IN  [ok |-> TRUE,
              hostname |-> SubSeq(rest, 1, h),
              pathname |-> IF path = <<>> THEN <<"/">> ELSE path,
              search |-> IF q = -1 THEN <<>> ELSE sliceFrom(afterHost, q + 1)]

\* URLSearchParams.get(name): the value of the first pair with that name, or null.
searchParamsGet(search, name) ==
    LET pairs == filterBoolean(split(search, "&"))
        key(p) == IF indexOf(p, "=") = -1 THEN p ELSE SubSeq(p, 1, indexOf(p, "="))
        val(p) == IF indexOf(p, "=") = -1 THEN <<>> ELSE sliceFrom(p, indexOf(p, "=") + 1)
        hits == {i \in 1..Len(pairs) : key(pairs[i]) = name}
    IN  IF hits = {}
        THEN Null
        ELSE Str(val(pairs[CHOOSE i \in hits : \A j \in hits : i <= j]))

\* parts[i] of a JS array (0-based); undefined outside the array
At(arr, i) == IF i >= 0 /\ i < Len(arr) THEN Str(arr[i + 1]) ELSE Undefined

(***************************************************************************)
(* extractYouTubeId                                                        *)
(***************************************************************************)
extractYouTubeId(url) ==
    LET u == ParseURL(url)
        v == searchParamsGet(u.search, <<"v">>)
        parts == filterBoolean(split(u.pathname, "/"))
        shortsIdx == indexOf(parts, <<"shorts">>)
        embedIdx == indexOf(parts, <<"embed">>)
    IN  IF ~u.ok THEN Null
        ELSE IF Truthy(v) THEN v
        ELSE IF endsWith(u.hostname, <<"youtu", ".", "be">>)
             THEN OrElse(At(parts, 0), Null)
        ELSE IF shortsIdx >= 0 /\ Truthy(At(parts, shortsIdx + 1))
             THEN At(parts, shortsIdx + 1)
        ELSE IF embedIdx >= 0 /\ Truthy(At(parts, embedIdx + 1))
             THEN At(parts, embedIdx + 1)
        ELSE Null

(***************************************************************************)
(* fetchYouTubeOEmbed: what the metadata endpoint can answer.              *)
(*   "network" - fetch rejects;  "status" - a non-2xx status;              *)
(*   "badjson" - res.json() rejects;  "ok" - a JSON body whose title and   *)
(*   author_name are the given values (Undefined when the body has none).  *)
(* The result is null or {title, author_name}.                             *)
(***************************************************************************)
\* no answer yet
NoAnswer == [kind |-> "none", title |-> Undefined, author_name |-> Undefined]

NoMetadata == [isNull |-> TRUE, title |-> Undefined, author_name |-> Undefined]

\* mutant: a failed lookup is answered with a default title instead of null
fetchYouTubeOEmbed_defaultTitle(answer) ==
    IF answer.kind # "ok"
    THEN [isNull |-> FALSE, title |-> Str(<<"b">>), author_name |-> Undefined]
    ELSE [isNull |-> FALSE, title |-> answer.title, author_name |-> answer.author_name]

fetchYouTubeOEmbed(answer) ==
    IF answer.kind # "ok"
    THEN NoMetadata
    ELSE [isNull |-> FALSE, title |-> answer.title, author_name |-> answer.author_name]

\* oembed?.title
oembedTitle(oembed) == IF oembed.isNull THEN Undefined ELSE oembed.title

(***************************************************************************)
(* Model output: a text is a sequence of tokens, a prose character, an     *)
(* opening brace, a closing brace, or a member "key": value of an object.  *)
(***************************************************************************)
Prose == [c |-> "p", k |-> "", val |-> Undefined]

LBrace == [c |-> "{", k |-> "", val |-> Undefined]

RBrace == [c |-> "}", k |-> "", val |-> Undefined]

Member(key, value) == [c |-> "m", k |-> key, val |-> value]

\* "key": before an object value
Key(key) == [c |-> "k", k |-> key, val |-> Undefined]

\* "key":" opening a string value whose characters follow, up to the closing quote
Quote(key) == [c |-> "q", k |-> key, val |-> Undefined]

EndQuote == [c |-> "e", k |-> "", val |-> Undefined]

\* a number literal
Scalar == [c |-> "n", k |-> "", val |-> Num(<<"5">>)]

\* a decoded nested object, kept as its text
Obj(toks) == [t |-> "obj", v |-> toks]

\* the closing quote of the string whose characters start at i, 0 if there is none
RECURSIVE StringEnd(_, _)
StringEnd(toks, i) ==
    IF i > Len(toks) THEN 0
    ELSE IF toks[i].c = "e" THEN i
    ELSE IF toks[i].c \in {"p", "{", "}"} THEN StringEnd(toks, i + 1)
    ELSE 0

\* the brace that closes the object whose members start at i, 0 if the text is not
\* an object there
RECURSIVE ObjectEnd(_, _)
ObjectEnd(toks, i) ==
    IF i > Len(toks) THEN 0
    ELSE CASE toks[i].c = "}" -> i
           [] toks[i].c = "m" -> ObjectEnd(toks, i + 1)
           [] toks[i].c = "k" ->
                IF i + 1 <= Len(toks) /\ toks[i + 1].c = "{"
                THEN LET e == ObjectEnd(toks, i + 2)
                     IN  IF e = 0 THEN 0 ELSE ObjectEnd(toks, e + 1)
                ELSE 0
           [] toks[i].c = "q" ->
                LET e == StringEnd(toks, i + 1)
                IN  IF e = 0 THEN 0 ELSE ObjectEnd(toks, e + 1)
           [] OTHER -> 0

\* JSON.parse of a token string succeeds on a number literal and on an object that
\* spans the whole string; on anything else it throws.
JSONParses(toks) ==
    \/ toks = <<Scalar>>
    \/ /\ Len(toks) >= 2
       /\ toks[1] = LBrace
       /\ ObjectEnd(toks, 2) = Len(toks)

\* the members of the object whose members start at i, as <<key, value>> pairs
RECURSIVE Members(_, _)
Members(toks, i) ==
    CASE toks[i].c = "m" -> <<[k |-> toks[i].k, val |-> toks[i].val]>> \o Members(toks, i + 1)
      [] toks[i].c = "k" ->
           LET e == ObjectEnd(toks, i + 2)
           IN  <<[k |-> toks[i].k, val |-> Obj(SubSeq(toks, i + 1, e))]>>
                   \o Members(toks, e + 1)
      [] toks[i].c = "q" ->
           LET e == StringEnd(toks, i + 1)
           IN  <<[k |-> toks[i].k, val |-> Str([j \in 1..(e - i - 1) |-> toks[i + j].c])]>>
                   \o Members(toks, e + 1)
      [] OTHER -> <<>>

\* The decoded object of a string that parses as an object: of two members with the
\* same key the later one wins; a key the text does not mention is undefined.
\* sources is not a key of the output.
JSONParse(toks) ==
    LET ms == Members(toks, 2)
        last(key) ==
            LET hits == {i \in 1..Len(ms) : ms[i].k = key}
            IN  IF hits = {}
                THEN Undefined
                ELSE ms[CHOOSE i \in hits : \A j \in hits : j <= i].val
    IN  [error |-> last("error"),
         videoId |-> last("videoId"),
         videoTitle |-> last("videoTitle"),
         videoUrl |-> last("videoUrl"),
         payload |-> last("payload"),
         sources |-> Undefined]

\* What parseJsonResponse returns: null, an object, or a primitive (the number),
\* which has no properties.
NoDocument == [isNull |-> TRUE, primitive |-> FALSE, doc |-> JSONParse(<<LBrace, RBrace>>)]

Document(toks) ==
    IF toks = <<Scalar>>
    THEN [isNull |-> FALSE, primitive |-> TRUE, doc |-> NoDocument.doc]
    ELSE [isNull |-> FALSE, primitive |-> FALSE, doc |-> JSONParse(toks)]

\* mutant: the text is cut at the first closing brace
parseJsonResponse_firstClose(text) ==
    IF text.t # "str"
    THEN NoDocument
    ELSE LET start == indexOf(text.v, LBrace)
             end == indexOf(text.v, RBrace)
             jsonStr == substring(text.v, start, end + 1)
         IN  IF start = -1 \/ end = -1 THEN NoDocument
             ELSE IF ~JSONParses(jsonStr) THEN NoDocument
             ELSE Document(jsonStr)

\* parseJsonResponse: text is response.text, a string of tokens or undefined
\* (text.indexOf on undefined throws inside the try, which yields null).
parseJsonResponse(text) ==
    IF text.t # "str"
    THEN NoDocument
    ELSE LET start == indexOf(text.v, LBrace)
             end == lastIndexOf(text.v, RBrace)
             jsonStr == substring(text.v, start, end + 1)
         IN  IF start = -1 \/ end = -1 THEN NoDocument
             ELSE IF ~JSONParses(jsonStr) THEN NoDocument
             ELSE Document(jsonStr)

(***************************************************************************)
(* normalizeTitle, titlesLooselyMatch.  Title characters: letters, the     *)
(* space and the tab, U+200B (ZWSP) and U+FEFF (BOM).  JavaScript's trim   *)
(* and \s take the BOM for white space, but not U+200B.                    *)
(***************************************************************************)
WhiteSpace == {" ", "TAB", "BOM"}

ZeroWidth == {"ZWSP", "BOM"}

RECURSIVE trimStart(_)
trimStart(s) ==
    IF s # <<>> /\ Head(s) \in WhiteSpace THEN trimStart(Tail(s)) ELSE s

RECURSIVE trimEnd(_)
trimEnd(s) ==
    IF s # <<>> /\ s[Len(s)] \in WhiteSpace
    THEN trimEnd(SubSeq(s, 1, Len(s) - 1))
    ELSE s

trim(s) == trimEnd(trimStart(s))

lowerChar(ch) ==
    CASE ch = "A" -> "a"
      [] ch = "B" -> "b"
      [] OTHER -> ch

toLowerCase(s) == [i \in 1..Len(s) |-> lowerChar(s[i])]

\* .replace(/[\u200B-\u200D\uFEFF]/g, "")
stripZeroWidth(s) == SelectSeq(s, LAMBDA ch : ch \notin ZeroWidth)

\* .replace(/\s+/g, " ")
RECURSIVE collapseSpaces(_)
collapseSpaces(s) ==
    IF s = <<>> THEN <<>>
    ELSE IF Head(s) \in WhiteSpace
         THEN <<" ">> \o collapseSpaces(trimStart(s))
         ELSE <<Head(s)>> \o collapseSpaces(Tail(s))

normalizeTitle(s) == collapseSpaces(stripZeroWidth(toLowerCase(trim(s))))

\* mutant: only the second title is searched for the first
titlesLooselyMatch_oneWay(a, b) ==
    LET t1 == normalizeTitle(a)
        t2 == normalizeTitle(b)
    IN  IF t1 = <<>> \/ t2 = <<>>
        THEN FALSE
        ELSE t1 = t2 \/ includes(t2, t1)

titlesLooselyMatch(a, b) ==
    LET t1 == normalizeTitle(a)
        t2 == normalizeTitle(b)
    IN  IF t1 = <<>> \/ t2 = <<>>
        THEN FALSE
        ELSE t1 = t2 \/ includes(t1, t2) \/ includes(t2, t1)

(***************************************************************************)
(* Sources: grounding chunks of the response and their reconciliation.     *)
(***************************************************************************)
OriginalSourceTitle == Str(<<"YouTube (video analisado)">>)

Source(title, uri) == [title |-> title, uri |-> uri]

\* lines 237-245: the chunks that have a web part with a truthy uri
RECURSIVE groundingSources(_)
groundingSources(chunks) ==
    IF chunks = <<>> THEN <<>>
    ELSE (IF Head(chunks).web /\ Truthy(Head(chunks).uri)
          THEN <<Source(Head(chunks).title, Head(chunks).uri)>>
          ELSE <<>>) \o groundingSources(Tail(chunks))

\* (src.uri || "").trim()
trimmedUri(src) == trim(OrElse(src.uri, Str(<<>>)).v)

\* arr.findIndex(pred), 0-based, for a predicate known to hold somewhere
findIndexOfUri(arr, uri) ==
    (CHOOSE i \in 1..Len(arr) :
        /\ trimmedUri(arr[i]) = uri
        /\ \A j \in 1..(i - 1) : trimmedUri(arr[j]) # uri) - 1

\* mutant: duplicates are looked up by the uri as written, not trimmed
uniqueSources_untrimmed(youtubeUrl, sources) ==
    LET arr == <<Source(OriginalSourceTitle, Str(youtubeUrl))>> \o sources
        keep(idx) ==
            /\ trimmedUri(arr[idx + 1]) # <<>>
            /\ \A j \in 1..idx : arr[j].uri # arr[idx + 1].uri
        RECURSIVE pick(_)
        pick(i) ==
            IF i >= Len(arr) THEN <<>>
            ELSE (IF keep(i) THEN <<arr[i + 1]>> ELSE <<>>) \o pick(i + 1)
    IN  pick(0)

\* mutant: empty uris are dropped but duplicates are kept
uniqueSources_noDedup(youtubeUrl, sources) ==
    SelectSeq(<<Source(OriginalSourceTitle, Str(youtubeUrl))>> \o sources,
              LAMBDA src : trimmedUri(src) # <<>>)

\* lines 248-255
uniqueSources(youtubeUrl, sources) ==
    LET arr == <<Source(OriginalSourceTitle, Str(youtubeUrl))>> \o sources
        keep(idx) ==
            LET uri == trimmedUri(arr[idx + 1])
            IN  IF uri = <<>> THEN FALSE ELSE idx = findIndexOfUri(arr, uri)
        kept == {i \in 0..(Len(arr) - 1) : keep(i)}
        RECURSIVE pick(_)
        pick(i) ==
            IF i >= Len(arr) THEN <<>>
            ELSE (IF i \in kept THEN <<arr[i + 1]>> ELSE <<>>) \o pick(i + 1)
    IN  pick(0)

(***************************************************************************)
(* Rational numbers for video timestamps: num / den with den > 0, kept in  *)
(* lowest terms so that equal timestamps are equal values.                 *)
(***************************************************************************)
RECURSIVE GCD(_, _)
GCD(a, b) == IF b = 0 THEN a ELSE GCD(b, a % b)

Rat(n, d) ==
    LET g == IF n = 0 THEN d ELSE GCD(n, d)
    IN  [num |-> n \div g, den |-> d \div g]

RatMul(k, q) == Rat(k * q.num, q.den)

RatLeq(p, q) == p.num * q.den <= q.num * p.den

(***************************************************************************)
(* Bounds and the values the environment can supply.                       *)
(***************************************************************************)
MaxTitleLen == 2

MaxChunks == 1

MaxDuration == 10

MaxFramesArg == 5

\* extractFramesFromVideo(file, maxFrames = 20)
DefaultMaxFrames == 20

RECURSIVE SeqsUpTo(_, _)
SeqsUpTo(S, n) ==
    IF n = 0 THEN {<<>>}
    ELSE LET shorter == SeqsUpTo(S, n - 1)
         IN  shorter \cup {Append(q, x) : q \in {r \in shorter : Len(r) = n - 1}, x \in S}

\* environment: import.meta.env.VITE_GEMINI_API_KEY, process.env.API_KEY,
\* process.env.GEMINI_API_KEY
Envs ==
    { [vite |-> Undefined, api |-> Undefined, gemini |-> Undefined],
      [vite |-> Str(<<>>), api |-> Undefined, gemini |-> Undefined],
      [vite |-> Undefined, api |-> Undefined, gemini |-> Str(<<"key-3">>)] }

YouTubeHost == <<"www", ".", "youtube", ".", "com">>

WatchUrl(id) == <<"https://">> \o YouTubeHost \o <<"/", "watch", "?", "v", "=", id>>

ShortUrl(id) == <<"https://", "youtu", ".", "be", "/", id>>

ShortsUrl(id) == <<"https://">> \o YouTubeHost \o <<"/", "shorts", "/", id, "?", "feature", "=", "share">>

EmbedUrl(id) == <<"https://">> \o YouTubeHost \o <<"/", "embed", "/", id>>

InputUrls ==
    { WatchUrl("ABC123"), ShortUrl("ABC123"), ShortsUrl("ABC123"), EmbedUrl("ABC123"),
      <<"https://">> \o YouTubeHost \o <<"/", "watch", "?", "v", "=">>,
      <<"https://">> \o YouTubeHost \o <<"/", "channel", "/", "ABC123">>,
      YouTubeHost \o <<"/", "watch", "?", "v", "=", "ABC123">>,
      <<>> }

Modes == {"web", "video"}

FileNames == {<<"match", ".", "mp4">>, <<>>}

VerifiedTitle == <<"A", " ", "b">>

OEmbedAnswers ==
    { [kind |-> "network", title |-> Undefined, author_name |-> Undefined],
      [kind |-> "status", title |-> Undefined, author_name |-> Undefined],
      [kind |-> "badjson", title |-> Undefined, author_name |-> Undefined],
      [kind |-> "ok", title |-> Undefined, author_name |-> Str(<<"canal">>)],
      [kind |-> "ok", title |-> Str(<<>>), author_name |-> Undefined],
      [kind |-> "ok", title |-> Str(VerifiedTitle), author_name |-> Str(<<"canal">>)],
      [kind |-> "ok", title |-> Str(<<"b">>), author_name |-> Undefined] }

TitleChars == {"a", "A", "b", " ", "ZWSP"}

ModelTitles ==
    {Str(s) : s \in SeqsUpTo(TitleChars, MaxTitleLen)}
        \cup {Str(VerifiedTitle), Str(<<" ", "a", "TAB", " ", "B", "BOM">>), Undefined, Num(<<"7">>)}

ModelErrors == {Undefined, Str(<<>>), Str(<<"Incapaz de identificar">>)}

ModelVideoIds ==
    {Undefined, Null, Str(<<>>), Str(<<"ABC123">>), Str(<<"abc123">>), Str(<<"XYZ999">>)}

ModelVideoUrls == {Undefined, Str(WatchUrl("ABC123")), Str(ShortUrl("XYZ999"))}

\* the members a value contributes to the text: none when the key is left out
MemberOf(key, value) == IF value = Undefined THEN <<>> ELSE <<Member(key, value)>>

ObjectText(e, id, title, url) ==
    <<LBrace>> \o MemberOf("error", e) \o MemberOf("videoTitle", title)
        \o MemberOf("videoUrl", url) \o MemberOf("videoId", id)
        \o <<Member("payload", Str(<<"4-4-2">>)), RBrace>>

\* titles that are crossed with every error, identifier and URL
CoreTitles == {Str(VerifiedTitle), Str(<<"a", " ", "B">>), Undefined, Num(<<"7">>)}

\* every combination over the core titles, and every title with a right or a wrong
\* identifier
ObjectTexts ==
    {ObjectText(e, id, title, url) :
        e \in ModelErrors, id \in ModelVideoIds, title \in CoreTitles, url \in ModelVideoUrls}
    \cup
    {ObjectText(Undefined, id, title, Undefined) :
        id \in {Str(<<"ABC123">>), Str(<<"XYZ999">>)}, title \in ModelTitles}

GoodObject == ObjectText(Undefined, Str(<<"ABC123">>), Str(VerifiedTitle), Undefined)

\* response.text: an object, an object inside prose, a number between braces the
\* wrong way round, an object with a nested object, texts that do not decode, undefined
ModelTexts ==
    {Str(o) : o \in ObjectTexts}
        \cup { Str(<<Prose>> \o GoodObject \o <<Prose, Prose>>),
               Str(<<Prose>> \o ObjectText(Undefined, Str(<<"XYZ999">>), Str(VerifiedTitle), Undefined)),
               Str(GoodObject \o <<Prose>> \o GoodObject),
               Str(<<Prose, RBrace, Prose, LBrace>>),
               Str(<<RBrace, Scalar, LBrace>>),
               Str(<<Prose, LBrace, Member("videoTitle", Str(VerifiedTitle)),
                     Member("videoId", Str(<<"ABC123">>)), Key("payload"), LBrace,
                     Member("videoId", Str(<<"XYZ999">>)), RBrace, RBrace, Prose>>),
               Str(<<LBrace, Prose, RBrace>>),
               Str(<<LBrace>>),
               Str(<<Prose, Prose>>),
               Str(<<>>),
               Undefined }

Chunks ==
    { [web |-> FALSE, title |-> Undefined, uri |-> Undefined],
      [web |-> TRUE, title |-> Str(<<"t">>), uri |-> Undefined],
      [web |-> TRUE, title |-> Undefined, uri |-> Str(<<" ">>)],
      [web |-> TRUE, title |-> Str(<<"s1">>), uri |-> Str(<<"https://", "s1">>)],
      [web |-> TRUE, title |-> Str(<<"s1b">>), uri |-> Str(<<" ", "https://", "s1", " ">>)],
      [web |-> TRUE, title |-> Str(<<"yt">>), uri |-> Str(WatchUrl("ABC123"))] }

ChunkLists == SeqsUpTo(Chunks, MaxChunks)

Finite(d) == [fin |-> TRUE, n |-> d]

NonFinite == [fin |-> FALSE, n |-> 0]

Durations == {Finite(d) : d \in 0..MaxDuration} \cup {NonFinite}

(***************************************************************************)
(* State                                                                   *)
(***************************************************************************)
VARIABLES
    env,              \* the credential sources
    pc,               \* where the request is
    input,            \* the request: type, url, mode, file name
    expectedVideoId,  \* getAnalysisFromWeb: extractYouTubeId(youtubeUrl)
    oembed,           \* getAnalysisFromWeb: the metadata lookup's result
    oembedAnswer,     \* history: what the metadata endpoint answered
    response,         \* the generation call's response: text and chunks read
    analysis,         \* the decoded document (null before decoding)
    outcome,          \* what analyzeFootballMatch returned or threw
    io,               \* history: external operations performed, in order
    steps,            \* history: pipeline steps executed, in order
    sampler,          \* extractFramesFromVideo: the video element and the promise
    probe,            \* a helper function applied on its own: name, arguments, results
    prompt,           \* getAnalysisFromWeb: what analysisPrompt is built from
    prior             \* history: the same request made before in the other mode

vars ==
    <<env, pc, input, expectedVideoId, oembed, oembedAnswer, response, analysis, outcome,
      io, steps, sampler, probe, prompt, prior>>

Pending == [kind |-> "pending", error |-> "", detail |-> <<>>, doc |-> NoDocument.doc]

Threw(err, det) == [kind |-> "threw", error |-> err, detail |-> det, doc |-> NoDocument.doc]

Returned(d) == [kind |-> "returned", error |-> "", detail |-> <<>>, doc |-> d]

\* no helper function is being applied on its own
NoProbe == [fn |-> "none", args |-> <<>>, out |-> <<>>]

NoResponse == [received |-> FALSE, text |-> Undefined, chunks |-> <<>>]

NoSampler ==
    [promise |-> "none", objectUrl |-> "none", maxFrames |-> 0, ctx |-> FALSE,
     loaded |-> FALSE, errored |-> FALSE, duration |-> NonFinite, step |-> Rat(0, 1),
     captured |-> 0, currentTime |-> Rat(0, 1), seeking |-> 0, onseeked |-> FALSE,
     seeks |-> <<>>, frames |-> <<>>]

\* no prompt built yet
NoPrompt ==
    [youtubeUrl |-> <<>>, expectedVideoId |-> Undefined, titulo |-> Undefined,
     canal |-> Undefined, modo |-> ""]

\* lines 106 and 124-192: the values interpolated into analysisPrompt
analysisPrompt(youtubeUrl, expectedId, meta, mode) ==
    [youtubeUrl |-> youtubeUrl,
     expectedVideoId |-> expectedId,
     titulo |-> meta.title,
     canal |-> IF meta.author_name \in {Undefined, Null}
               THEN Str(<<"indisponivel">>)
               ELSE meta.author_name,
     modo |-> IF mode = "video" THEN "DETALHADO" ELSE "RAPIDO"]

\* no earlier request
NoPrior ==
    [active |-> FALSE, mode |-> "web", oembedAnswer |-> NoAnswer, response |-> NoResponse,
     prompt |-> NoPrompt, outcome |-> Pending]

Init ==
    /\ env \in Envs
    /\ pc = "idle"
    /\ input = [type |-> "none", url |-> <<>>, mode |-> "web", file |-> <<>>]
    /\ expectedVideoId = Null
    /\ oembed = NoMetadata
    /\ oembedAnswer = NoAnswer
    /\ response = NoResponse
    /\ analysis = NoDocument
    /\ outcome = Pending
    /\ io = <<>>
    /\ steps = <<>>
    /\ sampler = NoSampler
    /\ probe = NoProbe
    /\ prompt = NoPrompt
    /\ prior = NoPrior

(***************************************************************************)
(* getApiKey, getClient                                                    *)
(***************************************************************************)
getApiKey(e) == OrElse(OrElse(e.vite, e.api), e.gemini)

\* getClient throws when getApiKey() is falsy
getClientThrows(e) == ~Truthy(getApiKey(e))

(***************************************************************************)
(* analyzeFootballMatch, link path: getAnalysisFromWeb.  One action per    *)
(* statement group of the function; the function runs them in this order   *)
(* and a throw ends the request.                                           *)
(***************************************************************************)
LinkVars == <<expectedVideoId, oembed, oembedAnswer, response, analysis>>

\* analyzeFootballMatch(input) with input.type # "file"
RequestLink ==
    /\ pc = "idle"
    /\ \E u \in InputUrls, m \in Modes :
          input' = [type |-> "link", url |-> u, mode |-> m, file |-> <<>>]
    /\ pc' = "extract"
    /\ UNCHANGED <<env, probe, prompt, prior, LinkVars, outcome, io, steps, sampler>>

\* GUARDA 1 (lines 108-114)
Extract ==
    /\ pc = "extract"
    /\ expectedVideoId' = extractYouTubeId(input.url)
    /\ steps' = Append(steps, "Extract")
    /\ IF ~Truthy(expectedVideoId')
       THEN pc' = "done" /\ outcome' = Threw("InvalidLink", <<>>)
       ELSE pc' = "verify" /\ UNCHANGED outcome
    /\ UNCHANGED <<env, probe, prompt, prior, input, oembed, oembedAnswer, response, analysis, io, sampler>>

\* line 117, up to the await: fetchYouTubeOEmbed issues the fetch
VerifyCall ==
    /\ pc = "verify"
    /\ io' = Append(io, "oembed")
    /\ steps' = Append(steps, "Verify")
    /\ pc' = "awaitOEmbed"
    /\ UNCHANGED <<env, probe, prompt, prior, input, LinkVars, outcome, sampler>>

\* GUARDA 2 (lines 117-122): the lookup settles
VerifyReturn ==
    /\ pc = "awaitOEmbed"
    /\ \E answer \in OEmbedAnswers :
          /\ prior.active => answer = prior.oembedAnswer
          /\ oembedAnswer' = answer
          /\ oembed' = fetchYouTubeOEmbed(answer)
    /\ IF ~Truthy(oembedTitle(oembed'))
       THEN pc' = "done" /\ outcome' = Threw("UnverifiableVideo", <<>>)
       ELSE pc' = "generate" /\ UNCHANGED outcome
    /\ UNCHANGED <<env, probe, prompt, prior, input, expectedVideoId, response, analysis, io, steps, sampler>>

\* lines 124-201, up to the await: the prompt is built, getClient() is called and,
\* with a credential, generateContent is issued
GenerateCall ==
    /\ pc = "generate"
    /\ steps' = Append(steps, "Generate")
    /\ prompt' = analysisPrompt(input.url, expectedVideoId, oembed, input.mode)
    /\ IF getClientThrows(env)
       THEN pc' = "done" /\ outcome' = Threw("MissingCredential", <<>>) /\ UNCHANGED io
       ELSE pc' = "awaitModel" /\ io' = Append(io, "generateContent") /\ UNCHANGED outcome
    /\ UNCHANGED <<env, probe, prior, input, LinkVars, sampler>>

\* the generation call resolves with a response
GenerateReturn ==
    /\ pc = "awaitModel"
    /\ \E text \in ModelTexts :
          /\ prior.active => prior.response.received /\ text = prior.response.text
          /\ response' = [received |-> TRUE, text |-> text, chunks |-> <<>>]
    /\ pc' = "decode"
    /\ UNCHANGED <<env, probe, prompt, prior, input, expectedVideoId, oembed, oembedAnswer, analysis, outcome, io, steps, sampler>>

\* the generation call rejects: the rejection propagates out of the function
GenerateFails ==
    /\ pc \in {"awaitModel", "awaitModelFile"}
    /\ prior.active => ~prior.response.received
    /\ pc' = "done"
    /\ outcome' = Threw("TransportError", <<>>)
    /\ UNCHANGED <<env, probe, prompt, prior, input, LinkVars, io, steps, sampler>>

\* mutant: decoding continues at GUARDA 3, skipping the declared-error check
Decode_skipsDeclaredError ==
    /\ pc = "decode"
    /\ analysis' = parseJsonResponse(response.text)
    /\ steps' = Append(steps, "Decode")
    /\ IF analysis'.isNull
       THEN pc' = "done" /\ outcome' = Threw("UnparsableResponse", <<>>)
       ELSE pc' = "pinUrl" /\ UNCHANGED outcome
    /\ UNCHANGED <<env, probe, prompt, prior, input, expectedVideoId, oembed, oembedAnswer, response, io, sampler>>

\* lines 203-207
Decode ==
    /\ pc = "decode"
    /\ analysis' = parseJsonResponse(response.text)
    /\ steps' = Append(steps, "Decode")
    /\ IF analysis'.isNull
       THEN pc' = "done" /\ outcome' = Threw("UnparsableResponse", <<>>)
       ELSE pc' = "modelError" /\ UNCHANGED outcome
    /\ UNCHANGED <<env, probe, prompt, prior, input, expectedVideoId, oembed, oembedAnswer, response, io, sampler>>

\* lines 209-211
ModelReportedError ==
    /\ pc = "modelError"
    /\ steps' = Append(steps, "ModelReportedError")
    /\ IF Truthy(analysis.doc.error)
       THEN /\ pc' = "done"
            /\ outcome' = Threw("ModelDeclinedIdentification", <<analysis.doc.error.v>>)
       ELSE pc' = "pinUrl" /\ UNCHANGED outcome
    /\ UNCHANGED <<env, probe, prompt, prior, input, LinkVars, io, sampler>>

\* mutant: the URL is pinned on a document rebuilt from its identity fields
pinnedUrl_identityOnly(doc, youtubeUrl) ==
    [doc EXCEPT !.videoUrl = Str(youtubeUrl), !.payload = Undefined]

\* mutant: the model's own videoUrl is kept when it gave one
pinnedUrl_keepEcho(doc, youtubeUrl) ==
    IF Truthy(doc.videoUrl) THEN doc ELSE [doc EXCEPT !.videoUrl = Str(youtubeUrl)]

\* GUARDA 3 (line 214)
pinnedUrl(doc, youtubeUrl) == [doc EXCEPT !.videoUrl = Str(youtubeUrl)]

\* A decoded primitive has no properties: the assignment of line 214 throws a
\* TypeError (module code is strict).
PinUrl ==
    /\ pc = "pinUrl"
    /\ steps' = Append(steps, "PinUrl")
    /\ IF analysis.primitive
       THEN pc' = "done" /\ outcome' = Threw("TypeError", <<>>) /\ UNCHANGED analysis
       ELSE /\ analysis' = [analysis EXCEPT !.doc = pinnedUrl(analysis.doc, input.url)]
            /\ pc' = "idCheck"
            /\ UNCHANGED outcome
    /\ UNCHANGED <<env, probe, prompt, prior, input, expectedVideoId, oembed, oembedAnswer, response, io, sampler>>

\* mutant: the identifier is required but not compared
idGuard_presenceOnly(returnedId, expected) ==
    IF ~Truthy(returnedId) THEN "MissingVideoId" ELSE "ok"

\* GUARDA 4 (lines 217-227): "ok", or the error thrown
idGuard(returnedId, expected) ==
    IF ~Truthy(returnedId) THEN "MissingVideoId"
    ELSE IF returnedId # expected THEN "VideoIdMismatch"
    ELSE "ok"

IdCheck ==
    /\ pc = "idCheck"
    /\ steps' = Append(steps, "IdCheck")
    /\ LET verdict == idGuard(analysis.doc.videoId, expectedVideoId)
       IN  CASE verdict = "MissingVideoId" ->
                    pc' = "done" /\ outcome' = Threw("MissingVideoId", <<>>)
             [] verdict = "VideoIdMismatch" ->
                    /\ pc' = "done"
                    /\ outcome' = Threw("VideoIdMismatch",
                                        <<analysis.doc.videoId.v, expectedVideoId.v>>)
             [] OTHER -> pc' = "titleCheck" /\ UNCHANGED outcome
    /\ UNCHANGED <<env, probe, prompt, prior, input, LinkVars, io, sampler>>

\* mutant: the title is not checked in the detailed mode
TitleCheck_fastModeOnly ==
    /\ pc = "titleCheck"
    /\ steps' = Append(steps, "TitleCheck")
    /\ IF input.mode # "video" /\ ~(/\ analysis.doc.videoTitle.t = "str"
                                      /\ titlesLooselyMatch(oembed.title.v,
                                                            analysis.doc.videoTitle.v))
       THEN pc' = "done" /\ outcome' = Threw("TitleMismatch", <<>>)
       ELSE pc' = "reconcile" /\ UNCHANGED outcome
    /\ UNCHANGED <<env, probe, prompt, prior, input, LinkVars, io, sampler>>

\* mutant: the title is required to be a string but not compared
titleGuard_typeOnly(videoTitle, verifiedTitle) == videoTitle.t = "str"

\* GUARDA 5 (line 230)
titleGuard(videoTitle, verifiedTitle) ==
    videoTitle.t = "str" /\ titlesLooselyMatch(verifiedTitle.v, videoTitle.v)

TitleCheck ==
    /\ pc = "titleCheck"
    /\ steps' = Append(steps, "TitleCheck")
    /\ IF ~titleGuard(analysis.doc.videoTitle, oembed.title)
       THEN pc' = "done" /\ outcome' = Threw("TitleMismatch", <<>>)
       ELSE pc' = "reconcile" /\ UNCHANGED outcome
    /\ UNCHANGED <<env, probe, prompt, prior, input, LinkVars, io, sampler>>

\* lines 236-259: the grounding chunks of the response are read here for the first
\* time, the sources are reconciled and attached, and the document is returned
Reconcile ==
    /\ pc = "reconcile"
    /\ steps' = Append(steps, "Reconcile")
    /\ \E chunks \in ChunkLists :
          /\ prior.active => chunks = prior.response.chunks
          /\ response' = [response EXCEPT !.chunks = chunks]
          /\ analysis' = [analysis EXCEPT !.doc.sources =
                            [t |-> "arr",
                             v |-> uniqueSources(input.url, groundingSources(chunks))]]
    /\ outcome' = Returned(analysis'.doc)
    /\ pc' = "done"
    /\ UNCHANGED <<env, probe, prompt, prior, input, expectedVideoId, oembed, oembedAnswer, io, sampler>>

LinkNext ==
    \/ RequestLink
    \/ Extract
    \/ VerifyCall
    \/ VerifyReturn
    \/ GenerateCall
    \/ GenerateReturn
    \/ GenerateFails
    \/ Decode
    \/ ModelReportedError
    \/ PinUrl
    \/ IdCheck
    \/ TitleCheck
    \/ Reconcile

(***************************************************************************)
(* extractFramesFromVideo: the promise executor and the three event        *)
(* handlers of the video element.  A frame is recorded as the position the *)
(* video showed when it was drawn, and whether there was a 2d context to   *)
(* draw it with.                                                           *)
(***************************************************************************)
\* lines 263-269: elements created, object URL created and assigned to video.src
startSampler(maxFrames, hasCtx) ==
    [NoSampler EXCEPT !.promise = "pending", !.objectUrl = "live",
                      !.maxFrames = maxFrames, !.ctx = hasCtx]

\* resolve / reject settle the promise once; later calls change nothing
settle(sm, how) == IF sm.promise = "pending" THEN [sm EXCEPT !.promise = how] ELSE sm

\* mutant: the seek goes to the end of the interval instead of its start
seekTarget_nextFrame(sm) == RatMul(sm.captured + 1, sm.step)

\* the timestamp of the next seek (line 280)
seekTarget(sm) == RatMul(sm.captured, sm.step)

\* URL.revokeObjectURL(video.src) (line 288)
revoked(sm) == [sm EXCEPT !.objectUrl = "revoked"]

\* capture() (lines 278-291)
capture(sm) ==
    IF sm.captured < sm.maxFrames
    THEN [sm EXCEPT !.currentTime = seekTarget(sm),
                    !.seeking = @ + 1,
                    !.seeks = Append(@, seekTarget(sm)),
                    !.onseeked = TRUE]
    ELSE settle(revoked(sm), "resolved")

\* video.onloadedmetadata (lines 271-294).  With a duration that is not finite the
\* step is not finite, 0 * step is NaN, and assigning NaN to currentTime throws
\* inside the handler: no seek is issued and nothing settles the promise.
onloadedmetadata(sm, duration) ==
    LET known == [sm EXCEPT !.loaded = TRUE, !.duration = duration, !.captured = 0]
    IN  IF duration.fin
        THEN capture([known EXCEPT !.step = Rat(duration.n, sm.maxFrames)])
        ELSE known

\* video.onseeked (lines 281-286)
onseeked(sm) ==
    capture([sm EXCEPT !.frames = Append(@, [at |-> sm.currentTime, drawn |-> sm.ctx]),
                       !.captured = @ + 1])

\* video.onerror (line 296)
onerror(sm) == settle(sm, "rejected")

OtherVars ==
    <<env, pc, input, expectedVideoId, oembed, oembedAnswer, response, analysis, outcome,
      io, steps, probe, prompt, prior>>

\* the element reports its metadata, once
LoadedMetadata ==
    /\ sampler.promise = "pending"
    /\ ~sampler.loaded
    /\ ~sampler.errored
    /\ \E d \in Durations : sampler' = onloadedmetadata(sampler, d)
    /\ UNCHANGED OtherVars

\* a seek completes: the element fires seeked
Seeked ==
    /\ sampler.seeking > 0
    /\ sampler.onseeked
    /\ ~sampler.errored
    /\ sampler' = onseeked([sampler EXCEPT !.seeking = @ - 1])
    /\ UNCHANGED OtherVars

\* the resource fails to load, or to decode in the middle of the loop
VideoError ==
    /\ sampler.promise = "pending"
    /\ ~sampler.errored
    /\ sampler' = onerror([sampler EXCEPT !.errored = TRUE, !.seeking = 0])
    /\ UNCHANGED OtherVars

SamplerNext ==
    \/ LoadedMetadata
    \/ Seeked
    \/ VideoError

(***************************************************************************)
(* analyzeFootballMatch, file path: getAnalysisFromFile                    *)
(***************************************************************************)
\* analyzeFootballMatch(input) with input.type = "file"; line 302 up to the await
RequestFile ==
    /\ pc = "idle"
    /\ \E name \in FileNames :
          input' = [type |-> "file", url |-> <<>>, mode |-> "web", file |-> name]
    /\ \E hasCtx \in BOOLEAN : sampler' = startSampler(DefaultMaxFrames, hasCtx)
    /\ io' = io \o <<"createObjectURL", "loadVideo">>
    /\ steps' = Append(steps, "SampleFrames")
    /\ pc' = "awaitFrames"
    /\ UNCHANGED <<env, probe, prompt, prior, LinkVars, outcome>>

\* line 302: the awaited promise rejected
FramesRejected ==
    /\ pc = "awaitFrames"
    /\ sampler.promise = "rejected"
    /\ pc' = "done"
    /\ outcome' = Threw("FrameExtractionFailed", <<>>)
    /\ UNCHANGED <<env, probe, prompt, prior, input, LinkVars, io, steps, sampler>>

\* lines 302-322, up to the await: frames received, getClient(), generateContent
GenerateCallFile ==
    /\ pc = "awaitFrames"
    /\ sampler.promise = "resolved"
    /\ steps' = Append(steps, "Generate")
    /\ IF getClientThrows(env)
       THEN pc' = "done" /\ outcome' = Threw("MissingCredential", <<>>) /\ UNCHANGED io
       ELSE pc' = "awaitModelFile" /\ io' = Append(io, "generateContent") /\ UNCHANGED outcome
    /\ UNCHANGED <<env, probe, prompt, prior, input, LinkVars, sampler>>

GenerateReturnFile ==
    /\ pc = "awaitModelFile"
    /\ \E text \in ModelTexts : response' = [received |-> TRUE, text |-> text, chunks |-> <<>>]
    /\ pc' = "decodeFile"
    /\ UNCHANGED <<env, probe, prompt, prior, input, expectedVideoId, oembed, oembedAnswer, analysis, outcome, io, steps, sampler>>

\* lines 324-325
DecodeFile ==
    /\ pc = "decodeFile"
    /\ analysis' = parseJsonResponse(response.text)
    /\ steps' = Append(steps, "Decode")
    /\ IF analysis'.isNull
       THEN pc' = "done" /\ outcome' = Threw("UnparsableResponse", <<>>)
       ELSE pc' = "stampFile" /\ UNCHANGED outcome
    /\ UNCHANGED <<env, probe, prompt, prior, input, expectedVideoId, oembed, oembedAnswer, response, io, sampler>>

\* mutant: the file name is only a fallback for a title the model left out
stamped_keepModelTitle(doc, fileName) ==
    [doc EXCEPT !.videoTitle = OrElse(doc.videoTitle, Str(fileName)), !.videoUrl = Undefined]

\* lines 326-327
stamped(doc, fileName) == [doc EXCEPT !.videoTitle = Str(fileName), !.videoUrl = Undefined]

\* lines 326-328; on a decoded primitive the assignment of line 326 throws
StampFile ==
    /\ pc = "stampFile"
    /\ steps' = Append(steps, "Stamp")
    /\ IF analysis.primitive
       THEN outcome' = Threw("TypeError", <<>>) /\ UNCHANGED analysis
       ELSE /\ analysis' = [analysis EXCEPT !.doc = stamped(analysis.doc, input.file)]
            /\ outcome' = Returned(analysis'.doc)
    /\ pc' = "done"
    /\ UNCHANGED <<env, probe, prompt, prior, input, expectedVideoId, oembed, oembedAnswer, response, io, sampler>>

FileNext ==
    \/ RequestFile
    \/ FramesRejected
    \/ GenerateCallFile
    \/ GenerateReturnFile
    \/ DecodeFile
    \/ StampFile

Next == LinkNext \/ FileNext \/ SamplerNext

Spec == Init /\ [][Next]_vars

(***************************************************************************)
(* extractFramesFromVideo called on its own, with any positive maxFrames.  *)
(***************************************************************************)
SamplerInit ==
    /\ env \in Envs
    /\ pc = "sampling"
    /\ \E name \in FileNames :
          input = [type |-> "file", url |-> <<>>, mode |-> "web", file |-> name]
    /\ expectedVideoId = Null
    /\ oembed = NoMetadata
    /\ oembedAnswer = NoAnswer
    /\ response = NoResponse
    /\ analysis = NoDocument
    /\ outcome = Pending
    /\ io = <<"createObjectURL", "loadVideo">>
    /\ steps = <<>>
    /\ \E m \in 1..MaxFramesArg, hasCtx \in BOOLEAN : sampler = startSampler(m, hasCtx)
    /\ probe = NoProbe
    /\ prompt = NoPrompt
    /\ prior = NoPrior

SamplerSpec == SamplerInit /\ [][SamplerNext]_vars

\* The element does report its metadata unless it fails first, and does complete
\* every seek that was issued unless it fails first.
SamplerFairSpec ==
    /\ SamplerInit
    /\ [][SamplerNext]_vars
    /\ WF_vars(LoadedMetadata)
    /\ WF_vars(Seeked)

(***************************************************************************)
(* The same link request made a second time in the other mode, with the    *)
(* metadata endpoint and the generation service answering what they        *)
(* answered the first time (the guards on prior in VerifyReturn,           *)
(* GenerateReturn, GenerateFails and Reconcile).                           *)
(***************************************************************************)
OtherMode(m) == IF m = "web" THEN "video" ELSE "web"

\* analyzeFootballMatch({url, mode}) again, after the first call has settled
RequestAgain ==
    /\ pc = "done"
    /\ input.type = "link"
    /\ ~prior.active
    /\ prior' = [active |-> TRUE, mode |-> input.mode, oembedAnswer |-> oembedAnswer,
                 response |-> response, prompt |-> prompt, outcome |-> outcome]
    /\ input' = [input EXCEPT !.mode = OtherMode(input.mode)]
    /\ pc' = "extract"
    /\ expectedVideoId' = Null
    /\ oembed' = NoMetadata
    /\ oembedAnswer' = NoAnswer
    /\ response' = NoResponse
    /\ analysis' = NoDocument
    /\ outcome' = Pending
    /\ io' = <<>>
    /\ steps' = <<>>
    /\ prompt' = NoPrompt
    /\ UNCHANGED <<env, probe, sampler>>

ModeNext == LinkNext \/ RequestAgain

ModeSpec == Init /\ [][ModeNext]_vars

(***************************************************************************)
(* Helper functions applied on their own, to arguments drawn from bounded  *)
(* sets: probe holds the function's name, its arguments and its results.   *)
(***************************************************************************)
MaxSources == 3

\* everything but probe, as before any request
AtRest ==
    /\ env = [vite |-> Undefined, api |-> Undefined, gemini |-> Undefined]
    /\ pc = "probe"
    /\ input = [type |-> "none", url |-> <<>>, mode |-> "web", file |-> <<>>]
    /\ expectedVideoId = Null
    /\ oembed = NoMetadata
    /\ oembedAnswer = NoAnswer
    /\ response = NoResponse
    /\ analysis = NoDocument
    /\ outcome = Pending
    /\ io = <<>>
    /\ steps = <<>>
    /\ sampler = NoSampler
    /\ prompt = NoPrompt
    /\ prior = NoPrior

RequestVars ==
    <<env, pc, input, expectedVideoId, oembed, oembedAnswer, response, analysis, outcome,
      io, steps, sampler, prompt, prior>>

Probe(fn, args) == [fn |-> fn, args |-> args, out |-> <<>>]

\* lines 236-255 on their own: the URL of a request that passed the guards and the
\* grounding chunks of a response
ReconcileUrls == {WatchUrl("ABC123"), ShortUrl("ABC123")}

ReconcileInit ==
    /\ AtRest
    /\ \E u \in ReconcileUrls, chunks \in SeqsUpTo(Chunks, MaxSources) :
          probe = Probe("uniqueSources", <<u, chunks>>)

\* the sources of the chunks, reconciled
ApplyReconcile ==
    /\ probe.fn = "uniqueSources"
    /\ probe.out = <<>>
    /\ probe' = [probe EXCEPT !.out =
                    <<uniqueSources(probe.args[1], groundingSources(probe.args[2]))>>]
    /\ UNCHANGED RequestVars

\* the reconciled list, reconciled again as the grounding sources of the same URL
ApplyReconcileAgain ==
    /\ probe.fn = "uniqueSources"
    /\ Len(probe.out) = 1
    /\ probe' = [probe EXCEPT !.out = Append(@, uniqueSources(probe.args[1], probe.out[1]))]
    /\ UNCHANGED RequestVars

ReconcileNext ==
    \/ ApplyReconcile
    \/ ApplyReconcileAgain

ReconcileSpec == ReconcileInit /\ [][ReconcileNext]_vars

\* lines 87-99 on their own: two titles of up to MaxMatchLen characters
MaxMatchLen == 3

MatchChars == {"a", "b", " ", "ZWSP"}

TitleInit ==
    /\ AtRest
    /\ \E a, b \in SeqsUpTo(MatchChars, MaxMatchLen) :
          probe = Probe("titlesLooselyMatch", <<a, b>>)

\* the two titles matched in both orders
ApplyMatch ==
    /\ probe.fn = "titlesLooselyMatch"
    /\ probe.out = <<>>
    /\ probe' = [probe EXCEPT !.out =
                    <<titlesLooselyMatch(probe.args[1], probe.args[2]),
                      titlesLooselyMatch(probe.args[2], probe.args[1])>>]
    /\ UNCHANGED RequestVars

TitleSpec == TitleInit /\ [][ApplyMatch]_vars

\* lines 35-57 on their own: URLs written from a scheme (or none), a host, up to
\* MaxSegments path segments and a query
MaxSegments == 2

ExtractHosts ==
    { YouTubeHost,
      <<"youtu", ".", "be">>,
      <<"www", ".", "youtu", ".", "be">>,
      <<"not", "youtu", ".", "be">>,
      <<"example", ".", "com">> }

ExtractSegments == {"shorts", "embed", "watch", "ID1"}

\* the query as written, and the value of its first v parameter (<<>> when none)
ExtractQueries ==
    { [text |-> <<>>, v |-> <<>>],
      [text |-> <<"?", "v", "=", "ID2">>, v |-> <<"ID2">>],
      [text |-> <<"?", "v", "=">>, v |-> <<>>],
      [text |-> <<"?", "t", "=", "1", "&", "v", "=", "ID2">>, v |-> <<"ID2">>],
      [text |-> <<"?", "list", "=", "ID2">>, v |-> <<>>] }

RECURSIVE PathOf(_)
PathOf(segs) == IF segs = <<>> THEN <<>> ELSE <<"/", Head(segs)>> \o PathOf(Tail(segs))

UrlOf(w) ==
    w.scheme \o w.host \o PathOf(w.segs) \o (IF w.slash THEN <<"/">> ELSE <<>>) \o w.query.text

ExtractInit ==
    /\ AtRest
    /\ \E scheme \in {<<"https://">>, <<>>}, host \in ExtractHosts,
          segs \in SeqsUpTo(ExtractSegments, MaxSegments), slash \in BOOLEAN,
          query \in ExtractQueries :
          LET w == [scheme |-> scheme, host |-> host, segs |-> segs, slash |-> slash,
                    query |-> query]
          IN  probe = Probe("extractYouTubeId", <<UrlOf(w), w>>)

ApplyExtract ==
    /\ probe.fn = "extractYouTubeId"
    /\ probe.out = <<>>
    /\ probe' = [probe EXCEPT !.out = <<extractYouTubeId(probe.args[1])>>]
    /\ UNCHANGED RequestVars

ExtractSpec == ExtractInit /\ [][ApplyExtract]_vars

\* lines 75-85 on their own: texts written as prose, an object of up to MaxMembers
\* members, prose; and every text of up to MaxTokens tokens
MaxMembers == 2

MaxTokens == 3

\* text without braces
ProseRuns == {<<>>, <<Prose>>, <<Prose, Scalar>>}

\* a member as written: a plain value, a nested object, a string with braces in it
ObjectItems ==
    { <<Member("videoId", Str(<<"ABC123">>))>>,
      <<Member("videoId", Str(<<"XYZ999">>))>>,
      <<Member("videoTitle", Str(VerifiedTitle))>>,
      <<Key("payload"), LBrace, RBrace>>,
      <<Key("payload"), LBrace, Member("videoId", Str(<<"XYZ999">>)), RBrace>>,
      <<Quote("videoTitle"), LBrace, EndQuote>>,
      <<Quote("videoTitle"), RBrace, Prose, EndQuote>> }

RECURSIVE Flatten(_)
Flatten(ss) == IF ss = <<>> THEN <<>> ELSE Head(ss) \o Flatten(Tail(ss))

BalancedObjects ==
    {<<LBrace>> \o Flatten(items) \o <<RBrace>> : items \in SeqsUpTo(ObjectItems, MaxMembers)}

RawTokens ==
    { Prose, LBrace, RBrace, Scalar, EndQuote, Key("payload"), Quote("videoTitle"),
      Member("videoId", Str(<<"ABC123">>)) }

ParseInit ==
    /\ AtRest
    /\ \/ \E pre \in ProseRuns, obj \in BalancedObjects, post \in ProseRuns :
             probe = Probe("parseJsonResponse",
                           <<Str(pre \o obj \o post), [shaped |-> TRUE, obj |-> obj]>>)
       \/ \E text \in {Str(t) : t \in SeqsUpTo(RawTokens, MaxTokens)} \cup {Undefined} :
             probe = Probe("parseJsonResponse", <<text, [shaped |-> FALSE, obj |-> <<>>]>>)

ApplyParse ==
    /\ probe.fn = "parseJsonResponse"
    /\ probe.out = <<>>
    /\ probe' = [probe EXCEPT !.out = <<parseJsonResponse(probe.args[1])>>]
    /\ UNCHANGED RequestVars

ParseSpec == ParseInit /\ [][ApplyParse]_vars

(***************************************************************************)
(* Properties                                                              *)
(***************************************************************************)
IsLink == input.type = "link"

IsFile == input.type = "file"

\* what the inputs of the run decode to, recomputed from the inputs themselves
InputId == extractYouTubeId(input.url)

VerifiedTitleOf(answer) == oembedTitle(fetchYouTubeOEmbed(answer))

Decoded == parseJsonResponse(response.text)

\* C1: the link path returns a document only if an identifier was extracted, the
\* lookup gave a non-empty title, the output decoded, it declared no error, its
\* videoId equals the extracted identifier and its videoTitle is a string matching
\* the verified title; a finished request otherwise threw and carries no document.
C1_FailClosed ==
    /\ (IsLink /\ outcome.kind = "returned") =>
          /\ Truthy(InputId)
          /\ oembedAnswer.kind = "ok"
          /\ oembedAnswer.title.t = "str" /\ oembedAnswer.title.v # <<>>
          /\ response.received
          /\ ~Decoded.isNull
          /\ ~Truthy(Decoded.doc.error)
          /\ Decoded.doc.videoId = InputId
          /\ Decoded.doc.videoTitle.t = "str"
          /\ titlesLooselyMatch(oembedAnswer.title.v, Decoded.doc.videoTitle.v)
    /\ (IsLink /\ pc = "done") => outcome.kind \in {"returned", "threw"}
    /\ (IsLink /\ outcome.kind # "returned") => outcome.doc = NoDocument.doc

\* C1 witness: a document was returned whose title matches without being equal
C1_Witness ==
    /\ IsLink
    /\ outcome.kind = "returned"
    /\ outcome.doc.videoTitle # oembedAnswer.title

\* C2: a returned link document has videoUrl equal to the input URL and videoId
\* equal to the extracted identifier, whatever videoUrl the model echoed.
C2_PinnedIdentity ==
    (IsLink /\ outcome.kind = "returned") =>
        /\ outcome.doc.videoUrl = Str(input.url)
        /\ outcome.doc.videoId = InputId

\* C2 witness: returned although the model echoed another video's URL
C2_Witness ==
    /\ IsLink
    /\ outcome.kind = "returned"
    /\ Decoded.doc.videoUrl = Str(ShortUrl("XYZ999"))
    /\ input.url # ShortUrl("XYZ999")

\* the run got as far as GUARDA 4: the output decoded to an object that declared
\* no error
ReachedIdGuard ==
    /\ IsLink
    /\ pc = "done"
    /\ response.received
    /\ ~Decoded.isNull
    /\ ~Decoded.primitive
    /\ ~Truthy(Decoded.doc.error)

\* C3: a decoded document without videoId ends the link path with MissingVideoId,
\* one whose videoId is not exactly the extracted identifier with VideoIdMismatch
\* carrying both values; neither returns a document, whatever the title.
C3_IdentifierGuard ==
    /\ (ReachedIdGuard /\ ~Truthy(Decoded.doc.videoId)) =>
          outcome = Threw("MissingVideoId", <<>>)
    /\ (ReachedIdGuard /\ Truthy(Decoded.doc.videoId) /\ Decoded.doc.videoId # InputId) =>
          outcome = Threw("VideoIdMismatch", <<Decoded.doc.videoId.v, InputId.v>>)
    /\ (IsLink /\ response.received /\ Decoded.doc.videoId # InputId) =>
          outcome.kind # "returned"

\* C3 witness: an identifier differing only in case was rejected although the title
\* is the verified title
C3_Witness ==
    /\ ReachedIdGuard
    /\ InputId = Str(<<"ABC123">>)
    /\ Decoded.doc.videoId = Str(<<"abc123">>)
    /\ Decoded.doc.videoTitle = oembedAnswer.title
    /\ outcome.error = "VideoIdMismatch"

\* C4: after a failed lookup or a lookup without title the link path ends with
\* UnverifiableVideo and the generation call is not invoked; without an extracted
\* identifier neither the lookup nor the generation call is invoked.
C4_NoGenerationWithoutVerification ==
    /\ (IsLink /\ ~Truthy(InputId)) => io = <<>>
    /\ (IsLink /\ oembedAnswer.kind \in {"network", "status", "badjson"}) =>
          /\ outcome = Threw("UnverifiableVideo", <<>>)
          /\ pc = "done"
          /\ io = <<"oembed">>
    /\ (IsLink /\ oembedAnswer.kind = "ok" /\ ~Truthy(oembedAnswer.title)) =>
          /\ outcome = Threw("UnverifiableVideo", <<>>)
          /\ pc = "done"
          /\ io = <<"oembed">>

\* C4 witness: the endpoint answered with a non-2xx status and the request is over
C4_Witness ==
    /\ IsLink
    /\ oembedAnswer.kind = "status"
    /\ pc = "done"

LinkOrder ==
    <<"Extract", "Verify", "Generate", "Decode", "ModelReportedError", "PinUrl",
      "IdCheck", "TitleCheck", "Reconcile">>

\* the first failure of a finished link request, in the order of LinkOrder, from the
\* inputs of the run: <<error, number of the step that raises it>>
FirstFailure ==
    IF ~Truthy(InputId) THEN <<"InvalidLink", 1>>
    ELSE IF ~Truthy(VerifiedTitleOf(oembedAnswer)) THEN <<"UnverifiableVideo", 2>>
    ELSE IF getClientThrows(env) THEN <<"MissingCredential", 3>>
    ELSE IF ~response.received THEN <<"TransportError", 3>>
    ELSE IF Decoded.isNull THEN <<"UnparsableResponse", 4>>
    ELSE IF Truthy(Decoded.doc.error) THEN <<"ModelDeclinedIdentification", 5>>
    ELSE IF Decoded.primitive THEN <<"TypeError", 6>>
    ELSE IF ~Truthy(Decoded.doc.videoId) THEN <<"MissingVideoId", 7>>
    ELSE IF Decoded.doc.videoId # InputId THEN <<"VideoIdMismatch", 7>>
    ELSE IF Decoded.doc.videoTitle.t # "str" THEN <<"TitleMismatch", 8>>
    ELSE IF ~titlesLooselyMatch(oembedAnswer.title.v, Decoded.doc.videoTitle.v)
         THEN <<"TitleMismatch", 8>>
    ELSE <<"", 9>>

\* C5: the steps of the link path run in the order of LinkOrder; a finished request
\* reports the error of the first step that fails and has executed no later step.
C5_StepOrder ==
    IsLink =>
        /\ Len(steps) <= Len(LinkOrder)
        /\ steps = SubSeq(LinkOrder, 1, Len(steps))
        /\ pc = "done" =>
              /\ outcome.error = FirstFailure[1]
              /\ steps = SubSeq(LinkOrder, 1, FirstFailure[2])
              /\ (outcome.kind = "threw") = (FirstFailure[1] # "")
        /\ outcome.kind = "threw" =>
              /\ analysis.doc.sources = Undefined
              /\ response.chunks = <<>>

\* C5 witness: an output with a declared error, a wrong videoId and a wrong title
\* was reported as the declared error
C5_Witness ==
    /\ IsLink
    /\ pc = "done"
    /\ Truthy(Decoded.doc.error)
    /\ Truthy(Decoded.doc.videoId)
    /\ Decoded.doc.videoId # InputId
    /\ Decoded.doc.videoTitle.t # "str"
    /\ outcome.error = "ModelDeclinedIdentification"

\* C6: without a credential a request fails with MissingCredential before any I/O:
\* when MissingCredential is raised no lookup, no video load and no generation call
\* has happened.
C6_MissingCredentialBeforeIO ==
    outcome.error = "MissingCredential" => io = <<>>

\* C7: the file path returns no document when the decoded output declares an error.
C7_FileSurfacesDeclaredError ==
    (IsFile /\ outcome.kind = "returned") => ~Truthy(Decoded.doc.error)

\* C8: a document returned by the file path has the file's name as videoTitle and no
\* videoUrl, whatever the model wrote.
C8_FileStamp ==
    (IsFile /\ outcome.kind = "returned") =>
        /\ outcome.doc.videoTitle = Str(input.file)
        /\ outcome.doc.videoUrl = Undefined

\* C8 witness: returned although the model gave its own title and a URL
C8_Witness ==
    /\ IsFile
    /\ outcome.kind = "returned"
    /\ Decoded.doc.videoTitle = Str(VerifiedTitle)
    /\ Decoded.doc.videoUrl = Str(WatchUrl("ABC123"))
    /\ input.file = <<"match", ".", "mp4">>

\* C9: the sampler's promise never settles, resolved or rejected, with the object
\* URL of the video still unreleased.
C9_HandleReleased ==
    sampler.promise \in {"resolved", "rejected"} => sampler.objectUrl = "revoked"

\* the timestamp i * d / maxFrames
Timestamp(i, d, maxFrames) == Rat(i * d, maxFrames)

\* C10: with a known duration d the sampler seeks to i * d / maxFrames for
\* i = 0, 1, ... in this order, has at most one seek in flight, captures one frame
\* per completed seek before it issues the next, and resolves with maxFrames frames
\* in seek order.
C10_SequentialSampling ==
    LET m == sampler.maxFrames
        d == sampler.duration
    IN  /\ sampler.seeking <= 1
        /\ (sampler.loaded /\ d.fin) =>
              /\ Len(sampler.seeks) <= m
              /\ \A i \in 1..Len(sampler.seeks) :
                    sampler.seeks[i] = Timestamp(i - 1, d.n, m)
              /\ \A i \in 2..Len(sampler.seeks) :
                    RatLeq(sampler.seeks[i - 1], sampler.seeks[i])
              /\ Len(sampler.frames) <= Len(sampler.seeks)
              /\ Len(sampler.seeks) - Len(sampler.frames) <= 1
              /\ ~sampler.errored =>
                    Len(sampler.frames) = Len(sampler.seeks) - sampler.seeking
              /\ \A i \in 1..Len(sampler.frames) :
                    sampler.frames[i].at = sampler.seeks[i]
        /\ sampler.promise = "resolved" =>
              /\ sampler.loaded /\ d.fin
              /\ Len(sampler.seeks) = m
              /\ Len(sampler.frames) = m
              /\ sampler.seeking = 0

\* C10 witness: maxFrames = 5 on a 10-second resource resolved with the frames at
\* 0, 2, 4, 6, 8
C10_Witness ==
    /\ sampler.promise = "resolved"
    /\ sampler.maxFrames = 5
    /\ sampler.duration = Finite(10)
    /\ [i \in 1..5 |-> sampler.frames[i].at]
          = <<Rat(0, 1), Rat(2, 1), Rat(4, 1), Rat(6, 1), Rat(8, 1)>>

\* the sources of a list in order, without those whose trimmed uri is empty or was
\* seen earlier in the list
RECURSIVE FirstOccurrences(_, _)
FirstOccurrences(list, seen) ==
    IF list = <<>> THEN <<>>
    ELSE LET key == trimmedUri(Head(list))
         IN  IF key = <<>> \/ key \in seen
             THEN FirstOccurrences(Tail(list), seen)
             ELSE <<Head(list)>> \o FirstOccurrences(Tail(list), seen \cup {key})

\* C11: the reconciled list starts with the original-video source, continues with
\* the grounding sources in their order, holds no source with an empty trimmed uri
\* and no two with the same trimmed uri, the earliest occurrence being kept.
C11_ReconciledSources ==
    (probe.fn = "uniqueSources" /\ Len(probe.out) >= 1) =>
        LET u == probe.args[1]
            g == groundingSources(probe.args[2])
            r == probe.out[1]
        IN  /\ Len(r) >= 1
            /\ r[1] = Source(OriginalSourceTitle, Str(u))
            /\ \A i \in 1..Len(r) : trimmedUri(r[i]) # <<>>
            /\ \A i, j \in 1..Len(r) : i # j => trimmedUri(r[i]) # trimmedUri(r[j])
            /\ r = FirstOccurrences(<<Source(OriginalSourceTitle, Str(u))>> \o g, {})

\* C11 witness: of three chunks, one without usable uri and one that repeats an
\* earlier uri up to white space were dropped
C11_Witness ==
    /\ probe.fn = "uniqueSources"
    /\ Len(probe.out) >= 1
    /\ Len(groundingSources(probe.args[2])) = 3
    /\ Len(probe.out[1]) = 2
    /\ probe.out[1][2].uri = Str(<<"https://", "s1">>)

\* C12: reconciling the reconciled list again, for the same URL, returns the same
\* list.
C12_ReconcileIdempotent ==
    (probe.fn = "uniqueSources" /\ Len(probe.out) = 2) => probe.out[2] = probe.out[1]

\* C12 witness: a list of three sources was reconciled twice
C12_Witness ==
    /\ probe.fn = "uniqueSources"
    /\ Len(probe.out) = 2
    /\ Len(probe.out[1]) = 3

\* a title of nothing but white space and zero-width characters
Invisible(s) == \A i \in 1..Len(s) : s[i] \in WhiteSpace \cup ZeroWidth

\* C13: a title made only of white space and zero-width/BOM characters (the empty
\* title included) matches no title.
C13_InvisibleNeverMatches ==
    (/\ probe.fn = "titlesLooselyMatch"
     /\ probe.out # <<>>
     /\ Invisible(probe.args[1]) \/ Invisible(probe.args[2])) => probe.out[1] = FALSE

\* C14: matching a with b gives what matching b with a gives.
C14_MatchSymmetric ==
    (probe.fn = "titlesLooselyMatch" /\ probe.out # <<>>) => probe.out[1] = probe.out[2]

\* C14 witness: the shorter first title is found inside the second
C14_Witness ==
    /\ probe.fn = "titlesLooselyMatch"
    /\ probe.out = <<TRUE, TRUE>>
    /\ Len(normalizeTitle(probe.args[1])) < Len(normalizeTitle(probe.args[2]))

\* the shortened domain: youtu.be itself or a name under it
ShortenedDomain(host) ==
    \/ host = <<"youtu", ".", "be">>
    \/ Len(host) > 4 /\ endsWith(host, <<".", "youtu", ".", "be">>)

\* the segment that follows the first segment equal to name, if any
SegmentAfter(segs, name) ==
    LET at == {i \in 1..Len(segs) : segs[i] = name}
        i == CHOOSE k \in at : \A j \in at : k <= j
    IN  IF at = {} \/ i = Len(segs) THEN {} ELSE {<<segs[i + 1]>>}

\* the identifiers a URL carries in one of the four forms
CarriedIds(w) ==
    (IF w.query.v # <<>> THEN {w.query.v} ELSE {})
        \cup (IF ShortenedDomain(w.host) /\ w.segs # <<>> THEN {<<w.segs[1]>>} ELSE {})
        \cup SegmentAfter(w.segs, "shorts")
        \cup SegmentAfter(w.segs, "embed")

\* C15: a URL that carries x in the canonical, shortened, shorts or embed form gives
\* x; an unparseable URL and a URL of none of these forms give no identifier.
C15_ExtractorForms ==
    (probe.fn = "extractYouTubeId" /\ probe.out # <<>>) =>
        LET w == probe.args[2]
            ids == CarriedIds(w)
        IN  /\ (w.scheme = <<>> \/ ids = {}) => probe.out[1] = Null
            /\ (w.scheme # <<>> /\ Cardinality(ids) = 1) => \A x \in ids : probe.out[1] = Str(x)

\* C16: prose without braces, one balanced object, prose without braces decodes to
\* exactly that object; a text without "{" or without "}" gives no document; every
\* text, a "}" before the only "{" and undecodable content included, gives a value:
\* no document, or what a part of the text decodes to.
C16_ParserExtractsObject ==
    (probe.fn = "parseJsonResponse" /\ probe.out # <<>>) =>
        LET text == probe.args[1]
            shape == probe.args[2]
            has(tok) == text.t = "str" /\ \E i \in 1..Len(text.v) : text.v[i] = tok
        IN  /\ shape.shaped =>
                 probe.out[1] = [isNull |-> FALSE, primitive |-> FALSE,
                                 doc |-> JSONParse(shape.obj)]
            /\ (~has(LBrace) \/ ~has(RBrace)) => probe.out[1] = NoDocument
            /\ \/ probe.out[1] = NoDocument
               \/ \E a, b \in 1..Len(text.v) :
                     /\ JSONParses(SubSeq(text.v, a, b))
                     /\ probe.out[1] = Document(SubSeq(text.v, a, b))

\* C16 witness: an object with a nested object, inside prose, was decoded
C16_Witness ==
    /\ probe.fn = "parseJsonResponse"
    /\ probe.out # <<>>
    /\ probe.args[2].shaped
    /\ probe.args[1].v[1] = Prose
    /\ probe.args[1].v[Len(probe.args[1].v)] = Scalar
    /\ probe.out[1].doc.payload =
           Obj(<<LBrace, Member("videoId", Str(<<"XYZ999">>)), RBrace>>)
    /\ probe.out[1].doc.videoId = Str(<<"ABC123">>)

\* C17: the same link request in the other mode, with the same metadata answer and
\* the same model output, ends in the same outcome: the same error or the same
\* returned document.
C17_ModeNonInterference ==
    (prior.active /\ pc = "done") =>
        /\ input.mode # prior.mode
        /\ outcome = prior.outcome

\* C17 witness: both runs returned a document, from prompts that differ in MODO
C17_Witness ==
    /\ prior.active
    /\ pc = "done"
    /\ outcome.kind = "returned"
    /\ prior.outcome.kind = "returned"
    /\ prompt.modo # prior.prompt.modo
    /\ [prompt EXCEPT !.modo = ""] = [prior.prompt EXCEPT !.modo = ""]

\* C18: once the metadata is loaded with a duration that is zero or not available,
\* the sampler ends with an error: it does not resolve with frames and is not left
\* pending with nothing to wait for.
C18_DegenerateDurationFails ==
    (sampler.loaded /\ (~sampler.duration.fin \/ sampler.duration.n = 0)) =>
        /\ sampler.promise # "resolved"
        /\ sampler.promise = "pending" => sampler.seeking > 0

\* C19: if the element reports metadata or an error, and answers every seek with
\* seeked or an error, the sampler's promise eventually settles.
C19_EventuallySettles == <>(sampler.promise \in {"resolved", "rejected"})

\* C20: the link path changes the decoded document in videoUrl and sources only:
\* from decoding on, and in the returned document, error, videoId, videoTitle and
\* the payload are what the model output decoded to; the returned videoUrl is the
\* original URL and the returned sources are the reconciled list.
C20_OnlyUrlAndSourcesChange ==
    /\ (IsLink /\ ~analysis.isNull) =>
          /\ analysis.doc.error = Decoded.doc.error
          /\ analysis.doc.videoId = Decoded.doc.videoId
          /\ analysis.doc.videoTitle = Decoded.doc.videoTitle
          /\ analysis.doc.payload = Decoded.doc.payload
          /\ analysis.doc.videoUrl \in {Decoded.doc.videoUrl, Str(input.url)}
    /\ (IsLink /\ outcome.kind = "returned") =>
          outcome.doc =
              [Decoded.doc EXCEPT
                  !.videoUrl = Str(input.url),
                  !.sources = [t |-> "arr",
                               v |-> uniqueSources(input.url,
                                                   groundingSources(response.chunks))]]

\* C20 witness: a document with a nested payload was returned with a grounding
\* source attached
C20_Witness ==
    /\ IsLink
    /\ outcome.kind = "returned"
    /\ outcome.doc.payload.t = "obj"
    /\ Len(outcome.doc.sources.v) = 2
    /\ Decoded.doc.videoUrl # outcome.doc.videoUrl
====
